---------------------------- MODULE Spec2Model ----------------------------
(***************************************************************************)
(* A model of nwctxt.py, the NoteWorthy Composer clip text library:        *)
(*   - the text escaper (EscapeText / UnescapeText),                       *)
(*   - the clip item codec (NWC2ClipItem.__init__ / ReconstructClipText),  *)
(*   - the note pitch decoder (NWC2NotePitchPos),                          *)
(*   - the playback context (NWC2PlayContext).                             *)
(*                                                                         *)
(* Python strings that the code takes apart character by character (pitch  *)
(* tokens, option values, raw lines) are sequences of one-character        *)
(* strings; strings that the playback context only compares as a whole or  *)
(* uses as dictionary keys (object types, tags, clef names) are TLA+       *)
(* strings. In the codec every string is a sequence of symbols, a symbol   *)
(* being one character or, for a word of tag characters such as Text or    *)
(* Note, the word.                                                         *)
(* A Python value whose type the code tests at run time is a record with   *)
(* one field named after its type: [str |-> s], [list |-> l],              *)
(* [dict |-> d]; a dict is a function from its keys to its values.         *)
(***************************************************************************)
EXTENDS Integers, Sequences, FiniteSets, TLC

VARIABLES
    Context,          \* NWC2PlayContext.Context
    SeenFirstEnding,  \* NWC2PlayContext.SeenFirstEnding
    Ending1Context,   \* NWC2PlayContext.Ending1Context
    o,                \* the object last handed to UpdateContext
    err,              \* the exception that ended the traversal, "" for none
    nitems,           \* number of clip items consumed by the driver loop
    pre,              \* history: Context before the last UpdateContext
    snapAt,           \* history: Context when Ending1Context was last assigned
    openSince,        \* history: a MasterRepeatOpen Bar came after that assignment
    text,             \* escaper: the string under test
    escaped,          \* escaper: EscapeText(text) once computed
    unescaped,        \* escaper: UnescapeText(escaped) once computed
    line,             \* codec: the raw line of clip text
    item,             \* codec: the NWC2ClipItem built from line
    rebuilt,          \* codec: what ReconstructClipText(item) returned
    cerr,             \* codec: ReconstructClipText ended in trigger_error
    reparsed,         \* codec: the NWC2ClipItem built from rebuilt
    phase             \* which driver runs and how far it is

pvars == <<Context, SeenFirstEnding, Ending1Context, o, err, nitems,
           pre, snapAt, openSince>>
tvars == <<text, escaped, unescaped>>
cvars == <<line, item, rebuilt, cerr, reparsed>>
vars == <<Context, SeenFirstEnding, Ending1Context, o, err, nitems,
          pre, snapAt, openSince, text, escaped, unescaped,
          line, item, rebuilt, cerr, reparsed, phase>>

----------------------------------------------------------------------------
(* Bounds *)

\* Number of clip items the driver feeds to one playback context.
MaxItems == 4

\* Length of the strings handed to EscapeText.
MaxTextLen == 3

\* Length of the option value in the raw lines handed to the codec.
MaxValueLen == 3

\* Length of the option value in the raw lines of the items a caller edits.
MaxEditLen == 1

----------------------------------------------------------------------------
(* Python value shapes *)

StrV(s) == [str |-> s]
ListV(l) == [list |-> l]
DictV(d) == [dict |-> d]
IsStr(v) == "str" \in DOMAIN v
IsList(v) == "list" \in DOMAIN v
IsDict(v) == "dict" \in DOMAIN v

\* A dict whose keys all carry the value "" (flags of an associative option).
Flags(keys) == DictV([k \in keys |-> ""])

\* Python's `x in v` for a dict (key membership) and for the empty string.
PyIn(x, v) == IF IsDict(v) THEN x \in DOMAIN v.dict
              ELSE IF IsList(v) THEN \E i \in 1..Len(v.list) : v.list[i] = x
              ELSE FALSE

----------------------------------------------------------------------------
(* Utility code for note pitch *)

nwcNoteNames == <<"A", "B", "C", "D", "E", "F", "G">>

nwcNoteKeys == [n \in {"A", "B", "C", "D", "E", "F", "G"} |->
                  CHOOSE i \in 0..6 : nwcNoteNames[i + 1] = n]

nwcAccidentals == <<"v", "b", "n", "#", "x">>

nwcAccidentalKeys == [a \in {"v", "b", "n", "#", "x"} |->
                        CHOOSE i \in 0..4 : nwcAccidentals[i + 1] = a]

nwcClefCenterTones ==
    [Treble |-> (4 * 7) + nwcNoteKeys["B"],
     Bass   |-> (2 * 7) + nwcNoteKeys["D"],
     Alto   |-> (3 * 7) + nwcNoteKeys["C"],
     Tenor  |-> (3 * 7) + nwcNoteKeys["A"],
     Drum   |-> (2 * 7) + nwcNoteKeys["D"]]

\* nwcClefCenterTones[clef] raises KeyError for any other clef name.
ClefKnown(clef) == clef \in DOMAIN nwcClefCenterTones

nwcGetClefStdCenterTone(clef) == nwcClefCenterTones[clef]

Digits == {"0", "1", "2", "3", "4", "5", "6", "7", "8", "9"}

DigitVal(c) == CHOOSE d \in 0..9 :
    <<"0", "1", "2", "3", "4", "5", "6", "7", "8", "9">>[d + 1] = c

\* Index just past the longest run of digits of s that starts at index i.
RECURSIVE DigitsEnd(_, _)
DigitsEnd(s, i) == IF i <= Len(s) /\ s[i] \in Digits THEN DigitsEnd(s, i + 1) ELSE i

\* Value of the decimal digits s[i..j-1].
RECURSIVE DigitsValue(_, _, _)
DigitsValue(s, i, j) ==
    IF j <= i THEN 0 ELSE DigitsValue(s, i, j - 1) * 10 + DigitVal(s[j - 1])

\* str(n) for a natural number n, as a sequence of characters.
RECURSIVE NatToStr(_)
NatToStr(n) ==
    LET d == <<"0", "1", "2", "3", "4", "5", "6", "7", "8", "9">>[(n % 10) + 1]
    IN IF n < 10 THEN <<d>> ELSE NatToStr(n \div 10) \o <<d>>

\* str(n) for an integer n.
IntToStr(n) == IF n < 0 THEN <<"-">> \o NatToStr(0 - n) ELSE NatToStr(n)

\* NWC2NotePitchPos.__init__: the regular expression
\*   ^([\#bnxv]{0,1})(\-{0,1}[0-9]+)([oxXz]{0,1})([\^]{0,1})
\* matched at the start of postxt; no match leaves the defaults.
NWC2NotePitchPos(postxt) ==
    LET hasAcc == Len(postxt) >= 1 /\ postxt[1] \in {"#", "b", "n", "x", "v"}
        i1 == IF hasAcc THEN 2 ELSE 1
        neg == i1 <= Len(postxt) /\ postxt[i1] = "-"
        i2 == IF neg THEN i1 + 1 ELSE i1
        i3 == DigitsEnd(postxt, i2)
        hasHead == i3 <= Len(postxt) /\ postxt[i3] \in {"o", "x", "X", "z"}
        i4 == IF hasHead THEN i3 + 1 ELSE i3
        hasTie == i4 <= Len(postxt) /\ postxt[i4] = "^"
        val == DigitsValue(postxt, i2, i3)
    IN IF i3 > i2
       THEN [Accidental |-> IF hasAcc THEN postxt[1] ELSE "",
             Position   |-> IF neg THEN 0 - val ELSE val,
             Notehead   |-> IF hasHead THEN postxt[i3] ELSE "",
             Tied       |-> IF hasTie THEN "^" ELSE ""]
       ELSE [Accidental |-> "", Position |-> 0, Notehead |-> "", Tied |-> ""]

\* GetAccidentalPitchOffset returning the index of the accidental in
\* nwcAccidentals as it is, without centring it on the natural.
GetAccidentalPitchOffset_Uncentred(p) ==
    IF p.Accidental # "" THEN nwcAccidentalKeys[p.Accidental] ELSE 0

GetAccidentalPitchOffset(p) ==
    IF p.Accidental # "" THEN nwcAccidentalKeys[p.Accidental] - 2 ELSE 0

\* GetNoteName counting positions from one step below the clef's center tone.
GetNoteName_OneStepLow(p, clef) ==
    LET n == 55 + nwcGetClefStdCenterTone(clef) + p.Position
    IN nwcNoteNames[(n % 7) + 1]

GetNoteName(p, clef) ==
    LET n == 56 + nwcGetClefStdCenterTone(clef) + p.Position
    IN nwcNoteNames[(n % 7) + 1]

----------------------------------------------------------------------------
(* NWC2ClipItem accessors *)

GetObjType(obj) == obj.ObjType

GetTaggedOpt(obj, tag, nonexistent) ==
    IF tag \in DOMAIN obj.Opts THEN obj.Opts[tag] ELSE nonexistent

\* A non-list value is wrapped in a one-element list.
GetTaggedOptAsArray(obj, tag, nonexistent) ==
    IF tag \notin DOMAIN obj.Opts THEN nonexistent
    ELSE IF IsList(obj.Opts[tag]) THEN obj.Opts[tag].list
    ELSE <<obj.Opts[tag].str>>


----------------------------------------------------------------------------
(* NWC2PlayContext *)

NoteLetters == {"A", "B", "C", "D", "E", "F", "G"}

\* Ending1Context before any snapshot: Python's False.
NoContext == [none |-> FALSE]

InitContext ==
    [Clef          |-> "Treble",
     ClefOctave    |-> "None",
     Transposition |-> 0,
     Key           |-> [n \in NoteLetters |-> 0],
     RunKey        |-> [n \in NoteLetters |-> 0],
     Ties          |-> <<>>,
     Slur          |-> FALSE]

\* list.remove(x): the list without the first occurrence of x.
RECURSIVE ListRemove(_, _)
ListRemove(l, x) ==
    IF l = <<>> THEN <<>>
    ELSE IF Head(l) = x THEN Tail(l)
    ELSE <<Head(l)>> \o ListRemove(Tail(l), x)

ListHas(l, x) == \E i \in 1..Len(l) : l[i] = x

\* GetNotePitchAccidental: the explicit accidental, else the running key's.
GetNotePitchAccidental(ctx, notepitchObj) ==
    LET n == GetNoteName(notepitchObj, ctx.Clef)
        a == notepitchObj.Accidental
    IN IF a = "" THEN nwcAccidentals[ctx.RunKey[n] + 2 + 1] ELSE a

\* tieKey = noteacc + str(notepitchObj.Position)
TieKeyOf(ctx, notepitchObj) ==
    <<GetNotePitchAccidental(ctx, notepitchObj)>> \o IntToStr(notepitchObj.Position)

IsTieReceiver(ctx, notepitchObj) == ListHas(ctx.Ties, TieKeyOf(ctx, notepitchObj))

\* TieUpdate with the test for a tie marker on a matching pitch left out.
TieUpdate_DropsTied(ties, tieKey, tied) ==
    IF ListHas(ties, tieKey) THEN ListRemove(ties, tieKey)
    ELSE IF tied THEN Append(ties, tieKey)
    ELSE ties

\* TieUpdate appending a tied pitch's key whether or not it is already there.
TieUpdate_Duplicates(ties, tieKey, tied) ==
    IF tied THEN Append(ties, tieKey)
    ELSE IF ListHas(ties, tieKey) THEN ListRemove(ties, tieKey)
    ELSE ties

\* The tie update of one pitch of UpdateContext's loop.
TieUpdate(ties, tieKey, tied) ==
    IF ListHas(ties, tieKey)
    THEN (IF ~tied THEN ListRemove(ties, tieKey) ELSE ties)
    ELSE IF tied THEN Append(ties, tieKey)
    ELSE ties

\* PitchStep recording no change of the running key for an explicit natural.
PitchStep_NaturalIsAbsent(ctx, acc, notepitchTxt) ==
    LET notepitchObj == NWC2NotePitchPos(notepitchTxt)
        notename == GetNoteName(notepitchObj, ctx.Clef)
        tieKey == TieKeyOf(ctx, notepitchObj)
    IN [Ties |-> TieUpdate(acc.Ties, tieKey, notepitchObj.Tied # ""),
        RunKey_Changes |->
            IF notepitchObj.Accidental \notin {"", "n"}
            THEN (notename :> GetAccidentalPitchOffset(notepitchObj)) @@ acc.RunKey_Changes
            ELSE acc.RunKey_Changes]

\* One iteration of UpdateContext's pitch loop. acc holds the loop's two
\* accumulators, the Ties list (mutated in place) and RunKey_Changes; the
\* running key of ctx is not written before the loop ends.
PitchStep(ctx, acc, notepitchTxt) ==
    LET notepitchObj == NWC2NotePitchPos(notepitchTxt)
        notename == GetNoteName(notepitchObj, ctx.Clef)
        tieKey == TieKeyOf(ctx, notepitchObj)
    IN [Ties |-> TieUpdate(acc.Ties, tieKey, notepitchObj.Tied # ""),
        RunKey_Changes |->
            IF notepitchObj.Accidental # ""
            THEN (notename :> GetAccidentalPitchOffset(notepitchObj)) @@ acc.RunKey_Changes
            ELSE acc.RunKey_Changes]

\* A pitch loop that writes each explicit accidental to the running key
\* before it evaluates the next pitch.
RECURSIVE PitchLoop_WritesThrough(_, _, _)
PitchLoop_WritesThrough(ctx, acc, notes) ==
    IF notes = <<>> THEN acc
    ELSE LET a == PitchStep(ctx, acc, Head(notes))
         IN PitchLoop_WritesThrough([ctx EXCEPT !.RunKey = a.RunKey_Changes @@ ctx.RunKey],
                                    a, Tail(notes))

RECURSIVE PitchLoop(_, _, _)
PitchLoop(ctx, acc, notes) ==
    IF notes = <<>> THEN acc
    ELSE PitchLoop(ctx, PitchStep(ctx, acc, Head(notes)), Tail(notes))

\* MergedNotes putting Pos before Pos2 whatever the Stem option says.
MergedNotes_IgnoresStem(obj) ==
    LET notes == GetTaggedOptAsArray(obj, "Pos", <<>>)
        notes2 == GetTaggedOptAsArray(obj, "Pos2", <<>>)
    IN IF notes = <<>> THEN notes2 ELSE notes \o notes2

\* The pitch tokens of a Note, Chord, Rest or RestChord in processing order.
MergedNotes(obj) ==
    LET notes == GetTaggedOptAsArray(obj, "Pos", <<>>)
        notes2 == GetTaggedOptAsArray(obj, "Pos2", <<>>)
    IN IF notes = <<>> THEN notes2
       ELSE IF notes2 # <<>>
            THEN (IF "Stem" \in DOMAIN obj.Opts /\ obj.Opts["Stem"] = StrV("Up")
                  THEN notes2 \o notes
                  ELSE notes \o notes2)
            ELSE notes

\* SlurUpdate without the test for a grace note.
SlurUpdate_IgnoresGrace(ctx, dur) == [ctx EXCEPT !.Slur = PyIn("Slur", dur)]

\* The Slur assignment that ends the Note branch.
SlurUpdate(ctx, dur) ==
    IF ~PyIn("Grace", dur) THEN [ctx EXCEPT !.Slur = PyIn("Slur", dur)] ELSE ctx

\* The Note/Chord/Rest/RestChord branch: the context it leaves and the
\* exception it raises ("" for none). GetNoteName raises KeyError at the
\* first pitch when the clef has no center tone; o.Opts["Dur"] raises
\* KeyError, after Ties and RunKey were written, when there is no Dur.
NoteBranch(ctx, obj) ==
    LET notes == MergedNotes(obj)
    IN IF notes # <<>> /\ ~ClefKnown(ctx.Clef)
       THEN [Context |-> ctx, err |-> "KeyError"]
       ELSE LET r == PitchLoop(ctx, [Ties |-> ctx.Ties, RunKey_Changes |-> <<>>], notes)
                ctx1 == [ctx EXCEPT !.Ties = r.Ties,
                                    !.RunKey = r.RunKey_Changes @@ ctx.RunKey]
            IN IF "Dur" \notin DOMAIN obj.Opts
               THEN [Context |-> ctx1, err |-> "KeyError"]
               ELSE [Context |-> SlurUpdate(ctx1, obj.Opts["Dur"]), err |-> ""]

\* BarBranch without the reset of the running key.
BarBranch_NoReset(ctx) == ctx

\* The Bar branch's write of the running key.
BarBranch(ctx) == [ctx EXCEPT !.RunKey = ctx.Key]

\* BarSeenFirstEnding setting the flag at a MasterRepeatOpen Bar.
BarSeenFirstEnding_Sets(seen, obj) ==
    IF GetTaggedOpt(obj, "Style", StrV("")) = StrV("MasterRepeatOpen") THEN TRUE ELSE seen

\* The Bar branch's write of SeenFirstEnding.
BarSeenFirstEnding(seen, obj) ==
    IF GetTaggedOpt(obj, "Style", StrV("")) = StrV("MasterRepeatOpen") THEN FALSE ELSE seen

\* ClefBranch resetting the transposition along with the clef.
ClefBranch_ResetsTransposition(ctx, obj) ==
    [ctx EXCEPT !.Clef = GetTaggedOpt(obj, "Type", StrV("Treble")).str,
                !.ClefOctave = GetTaggedOpt(obj, "OctaveShift", StrV("None")).str,
                !.Transposition = 0]

ClefBranch(ctx, obj) ==
    [ctx EXCEPT !.Clef = GetTaggedOpt(obj, "Type", StrV("Treble")).str,
                !.ClefOctave = GetTaggedOpt(obj, "OctaveShift", StrV("None")).str]

\* The key signature computed from the Signature option.
KeyOffsets(k) ==
    [notename \in NoteLetters |->
        IF PyIn(notename \o "b", k) THEN 0 - 1
        ELSE IF PyIn(notename \o "#", k) THEN 1
        ELSE 0]

\* KeyBranch keeping the sharps and flats of the previous key signature.
KeyBranch_Accumulates(ctx, obj) ==
    LET new == KeyOffsets(GetTaggedOpt(obj, "Signature", ListV(<<>>)))
        key == [n \in NoteLetters |-> IF new[n] # 0 THEN new[n] ELSE ctx.Key[n]]
    IN [ctx EXCEPT !.Key = key, !.RunKey = key]

KeyBranch(ctx, obj) ==
    LET key == KeyOffsets(GetTaggedOpt(obj, "Signature", ListV(<<>>)))
    IN [ctx EXCEPT !.Key = key, !.RunKey = key]

\* int(s) accepts an optional sign followed by decimal digits only.
IntParses(s) ==
    LET i == IF Len(s) >= 1 /\ s[1] \in {"-", "+"} THEN 2 ELSE 1
    IN DigitsEnd(s, i) > i /\ DigitsEnd(s, i) = Len(s) + 1

PyInt(s) ==
    LET i == IF Len(s) >= 1 /\ s[1] \in {"-", "+"} THEN 2 ELSE 1
        v == DigitsValue(s, i, Len(s) + 1)
    IN IF Len(s) >= 1 /\ s[1] = "-" THEN 0 - v ELSE v

\* The Instrument branch; int() raises ValueError on a non-numeric Trans.
InstrumentBranch(ctx, obj) ==
    IF "Trans" \notin DOMAIN obj.Opts
    THEN [Context |-> [ctx EXCEPT !.Transposition = 0], err |-> ""]
    ELSE IF IntParses(obj.Opts["Trans"].str)
    THEN [Context |-> [ctx EXCEPT !.Transposition = PyInt(obj.Opts["Trans"].str)],
          err |-> ""]
    ELSE [Context |-> ctx, err |-> "ValueError"]

\* SaveRestoreContext restoring a snapshot that shares the live Ties list.
SaveRestoreContext_SharedTies(ctx, seen, e1, obj) ==
    LET endings == GetTaggedOpt(obj, "Endings", DictV(<<>>))
    IN IF PyIn("1", endings) /\ ~seen
       THEN [Context |-> ctx, SeenFirstEnding |-> TRUE, Ending1Context |-> ctx]
       ELSE IF seen /\ ~PyIn("1", endings)
       THEN [Context |-> [e1 EXCEPT !.Ties = ctx.Ties], SeenFirstEnding |-> seen,
             Ending1Context |-> [e1 EXCEPT !.Ties = ctx.Ties]]
       ELSE [Context |-> ctx, SeenFirstEnding |-> seen, Ending1Context |-> e1]

\* SaveRestoreContext taking a snapshot at every Ending that contains "1".
SaveRestoreContext_AlwaysSaves(ctx, seen, e1, obj) ==
    LET endings == GetTaggedOpt(obj, "Endings", DictV(<<>>))
    IN IF PyIn("1", endings)
       THEN [Context |-> ctx, SeenFirstEnding |-> TRUE, Ending1Context |-> ctx]
       ELSE IF seen
       THEN [Context |-> e1, SeenFirstEnding |-> seen, Ending1Context |-> e1]
       ELSE [Context |-> ctx, SeenFirstEnding |-> seen, Ending1Context |-> e1]

\* SaveRestoreContext restoring whenever a snapshot exists, SeenFirstEnding or not.
SaveRestoreContext_RestoresStale(ctx, seen, e1, obj) ==
    LET endings == GetTaggedOpt(obj, "Endings", DictV(<<>>))
    IN IF PyIn("1", endings) /\ ~seen
       THEN [Context |-> ctx, SeenFirstEnding |-> TRUE, Ending1Context |-> ctx]
       ELSE IF e1 # [none |-> FALSE] /\ ~PyIn("1", endings)
       THEN [Context |-> e1, SeenFirstEnding |-> seen, Ending1Context |-> e1]
       ELSE [Context |-> ctx, SeenFirstEnding |-> seen, Ending1Context |-> e1]

\* SaveRestoreContext restoring the snapshot with its ties added to the live
\* ties instead of replacing them.
SaveRestoreContext_MergesTies(ctx, seen, e1, obj) ==
    LET endings == GetTaggedOpt(obj, "Endings", DictV(<<>>))
    IN IF PyIn("1", endings) /\ ~seen
       THEN [Context |-> ctx, SeenFirstEnding |-> TRUE, Ending1Context |-> ctx]
       ELSE IF seen /\ ~PyIn("1", endings)
       THEN [Context |-> [e1 EXCEPT !.Ties = ctx.Ties \o e1.Ties],
             SeenFirstEnding |-> seen, Ending1Context |-> e1]
       ELSE [Context |-> ctx, SeenFirstEnding |-> seen, Ending1Context |-> e1]

\* SaveRestoreContext on an Ending: [Context, SeenFirstEnding, Ending1Context]
\* afterwards. copy.deepcopy yields a value that shares nothing with its source.
SaveRestoreContext(ctx, seen, e1, obj) ==
    LET endings == GetTaggedOpt(obj, "Endings", DictV(<<>>))
    IN IF PyIn("1", endings) /\ ~seen
       THEN [Context |-> ctx, SeenFirstEnding |-> TRUE, Ending1Context |-> ctx]
       ELSE IF seen /\ ~PyIn("1", endings)
       THEN [Context |-> e1, SeenFirstEnding |-> seen, Ending1Context |-> e1]
       ELSE [Context |-> ctx, SeenFirstEnding |-> seen, Ending1Context |-> e1]

----------------------------------------------------------------------------
(* The decoded objects handed to UpdateContext, in the shapes the codec     *)
(* gives them: Pos is a string on a Note and a list on a Chord or           *)
(* RestChord, Dur, Endings and a Key's Signature are dicts, a bare option   *)
(* is the empty string, every other option is a string.                     *)

Obj(type, opts) == [ObjType |-> type, Opts |-> opts]

\* Pitch tokens: position 4 is F on the Treble clef and A on the Bass clef;
\* the empty token does not match the pitch grammar.
PitchTokens ==
    {<<"4">>, <<"4", "^">>, <<"#", "4">>, <<"#", "4", "^">>, <<"n", "4">>,
     <<"x", "-", "3", "z", "^">>, <<>>}

NoteObjects ==
    {Obj("Note", ("Pos" :> StrV(t)) @@ ("Dur" :> Flags({"4th"}))) : t \in PitchTokens}
    \cup {Obj("Note", ("Pos" :> StrV(<<"4", "^">>)) @@ ("Dur" :> d)) :
            d \in {Flags({"4th", "Slur"}), Flags({"8th", "Grace", "Slur"}), StrV("")}}
    \cup {Obj("Note", ("Pos" :> StrV(<<"4">>))),
          Obj("Rest", ("Dur" :> Flags({"4th"}))),
          Obj("Rest", ("Dur" :> Flags({"4th", "Slur"}))),
          Obj("Chord", ("Pos" :> ListV(<<<<"#", "4">>, <<"4", "^">>>>))
                       @@ ("Dur" :> Flags({"4th"}))),
          Obj("RestChord", ("Pos2" :> ListV(<<<<"4", "^">>>>))
                           @@ ("Dur" :> Flags({"4th"})))}
    \cup {Obj("Chord", ("Pos" :> ListV(<<<<"4", "^">>>>))
                       @@ ("Pos2" :> ListV(<<<<"4">>>>))
                       @@ ("Dur" :> Flags({"4th"})) @@ st) :
            st \in {<<>>, "Stem" :> StrV("Up"), "Stem" :> StrV("Down")}}

BarObjects ==
    {Obj("Bar", <<>>), Obj("Bar", "Style" :> StrV("MasterRepeatOpen")),
     Obj("Bar", "Style" :> StrV("Double"))}

ClefObjects ==
    {Obj("Clef", <<>>),
     Obj("Clef", ("Type" :> StrV("Bass")) @@ ("OctaveShift" :> StrV("Octave Up"))),
     Obj("Clef", "Type" :> StrV("Percussion"))}

KeyObjects ==
    {Obj("Key", <<>>), Obj("Key", "Signature" :> Flags({"F#", "C#"})),
     Obj("Key", "Signature" :> Flags({"Bb"}))}

InstrumentObjects ==
    {Obj("Instrument", <<>>), Obj("Instrument", "Trans" :> StrV(<<"-", "2">>)),
     Obj("Instrument", "Trans" :> StrV(<<"C">>))}

EndingObjects ==
    {Obj("Ending", <<>>), Obj("Ending", "Endings" :> Flags({"1"})),
     Obj("Ending", "Endings" :> Flags({"2"})),
     Obj("Ending", "Endings" :> Flags({"1", "2"}))}

OtherObjects == {Obj("Text", "Text" :> StrV("dolce"))}

----------------------------------------------------------------------------
(* The playback traversal: one action per branch of UpdateContext.         *)

\* What every branch does around its own writes: the driver loop hands over
\* the next item, and an exception ends the traversal.
Feed(obj, e) ==
    /\ phase = "play"
    /\ err = ""
    /\ nitems < MaxItems
    /\ nitems' = nitems + 1
    /\ o' = obj
    /\ err' = e
    /\ pre' = Context
    /\ UNCHANGED <<tvars, cvars, phase>>

UpdateNote(obj) ==
    /\ GetObjType(obj) \in {"Note", "Chord", "Rest", "RestChord"}
    /\ LET r == NoteBranch(Context, obj)
       IN /\ Context' = r.Context
          /\ Feed(obj, r.err)
    /\ UNCHANGED <<SeenFirstEnding, Ending1Context, snapAt, openSince>>

UpdateBar(obj) ==
    /\ GetObjType(obj) = "Bar"
    /\ Context' = BarBranch(Context)
    /\ SeenFirstEnding' = BarSeenFirstEnding(SeenFirstEnding, obj)
    /\ openSince' = (openSince \/ GetTaggedOpt(obj, "Style", StrV("")) = StrV("MasterRepeatOpen"))
    /\ Feed(obj, "")
    /\ UNCHANGED <<Ending1Context, snapAt>>

UpdateClef(obj) ==
    /\ GetObjType(obj) = "Clef"
    /\ Context' = ClefBranch(Context, obj)
    /\ Feed(obj, "")
    /\ UNCHANGED <<SeenFirstEnding, Ending1Context, snapAt, openSince>>

UpdateKey(obj) ==
    /\ GetObjType(obj) = "Key"
    /\ Context' = KeyBranch(Context, obj)
    /\ Feed(obj, "")
    /\ UNCHANGED <<SeenFirstEnding, Ending1Context, snapAt, openSince>>

UpdateInstrument(obj) ==
    /\ GetObjType(obj) = "Instrument"
    /\ LET r == InstrumentBranch(Context, obj)
       IN /\ Context' = r.Context
          /\ Feed(obj, r.err)
    /\ UNCHANGED <<SeenFirstEnding, Ending1Context, snapAt, openSince>>

UpdateEnding(obj) ==
    /\ GetObjType(obj) = "Ending"
    /\ LET r == SaveRestoreContext(Context, SeenFirstEnding, Ending1Context, obj)
           saved == PyIn("1", GetTaggedOpt(obj, "Endings", DictV(<<>>)))
                    /\ ~SeenFirstEnding
       IN /\ Context' = r.Context
          /\ SeenFirstEnding' = r.SeenFirstEnding
          /\ Ending1Context' = r.Ending1Context
          /\ snapAt' = IF saved THEN Context ELSE snapAt
          /\ openSince' = IF saved THEN FALSE ELSE openSince
    /\ Feed(obj, "")

UpdateOther(obj) ==
    /\ GetObjType(obj) \notin {"Note", "Chord", "Rest", "RestChord", "Bar", "Clef",
                               "Key", "Instrument", "Ending"}
    /\ Feed(obj, "")
    /\ UNCHANGED <<Context, SeenFirstEnding, Ending1Context, snapAt, openSince>>

\* A new NWC2PlayContext, nothing processed yet.
InitPlay ==
    /\ Context = InitContext
    /\ SeenFirstEnding = FALSE
    /\ Ending1Context = NoContext
    /\ o = Obj("", <<>>)
    /\ err = ""
    /\ nitems = 0
    /\ pre = InitContext
    /\ snapAt = NoContext
    /\ openSince = FALSE

\* No escaper call made.
InitText ==
    /\ text = <<>>
    /\ escaped = <<>>
    /\ unescaped = <<>>

\* No codec call made.
InitCodec ==
    /\ line = <<>>
    /\ item = Obj(<<>>, <<>>)
    /\ rebuilt = <<>>
    /\ cerr = FALSE
    /\ reparsed = Obj(<<>>, <<>>)

Init ==
    /\ InitPlay
    /\ InitText
    /\ InitCodec
    /\ phase = "play"

Next ==
    \/ \E obj \in NoteObjects : UpdateNote(obj)
    \/ \E obj \in BarObjects : UpdateBar(obj)
    \/ \E obj \in ClefObjects : UpdateClef(obj)
    \/ \E obj \in KeyObjects : UpdateKey(obj)
    \/ \E obj \in InstrumentObjects : UpdateInstrument(obj)
    \/ \E obj \in EndingObjects : UpdateEnding(obj)
    \/ \E obj \in OtherObjects : UpdateOther(obj)

Spec == Init /\ [][Next]_vars

----------------------------------------------------------------------------
(* The same traversal over the objects that make up the accidentals, ties   *)
(* and slurs of a measure: pitches of one letter in two octaves (positions  *)
(* 4 and -3 are both F on the Treble clef and both A on the Bass clef) with *)
(* every accidental, chords whose pitches share a letter or a tie key, and  *)
(* grace notes.                                                             *)

MeasurePitchTokens ==
    {<<"4">>, <<"4", "^">>, <<"#", "4">>, <<"n", "4">>, <<"-", "3", "^">>,
     <<"x", "4">>, <<"v", "-", "3">>}

MeasureNoteObjects ==
    {Obj("Note", ("Pos" :> StrV(t)) @@ ("Dur" :> Flags({"4th"}))) : t \in MeasurePitchTokens}
    \cup {Obj("Chord", ("Pos" :> ListV(l)) @@ ("Dur" :> Flags({"4th"}))) :
            l \in {<<<<"#", "4">>, <<"-", "3", "^">>>>,
                   <<<<"#", "4">>, <<"n", "-", "3">>>>,
                   <<<<"4", "^">>, <<"4", "^">>>>}}
    \cup {Obj("Rest", ("Dur" :> Flags({"4th", "Slur"}))),
          Obj("Note", ("Pos" :> StrV(<<"4">>)) @@ ("Dur" :> Flags({"8th", "Grace"}))),
          Obj("Note", ("Pos" :> StrV(<<"4">>)) @@ ("Dur" :> Flags({"8th", "Grace", "Slur"})))}

MeasureBarObjects == {Obj("Bar", <<>>), Obj("Bar", "Style" :> StrV("MasterRepeatOpen"))}

MeasureClefObjects == {Obj("Clef", "Type" :> StrV("Bass"))}

\* Key signatures: none, a bare Signature option, one sharp, one flat, and a
\* signature naming one letter both sharp and flat.
MeasureKeyObjects ==
    {Obj("Key", <<>>), Obj("Key", "Signature" :> StrV("")),
     Obj("Key", "Signature" :> Flags({"F#"})),
     Obj("Key", "Signature" :> Flags({"Bb"})),
     Obj("Key", "Signature" :> Flags({"F#", "Fb"}))}

MeasureInstrumentObjects == {Obj("Instrument", "Trans" :> StrV(<<"-", "2">>))}

MeasureEndingObjects ==
    {Obj("Ending", "Endings" :> Flags({"1"})), Obj("Ending", "Endings" :> Flags({"2"}))}

NextMeasure ==
    \/ \E obj \in MeasureNoteObjects : UpdateNote(obj)
    \/ \E obj \in MeasureBarObjects : UpdateBar(obj)
    \/ \E obj \in MeasureClefObjects : UpdateClef(obj)
    \/ \E obj \in MeasureKeyObjects : UpdateKey(obj)
    \/ \E obj \in MeasureInstrumentObjects : UpdateInstrument(obj)
    \/ \E obj \in MeasureEndingObjects : UpdateEnding(obj)
    \/ \E obj \in OtherObjects : UpdateOther(obj)

SpecMeasure == Init /\ [][NextMeasure]_vars

----------------------------------------------------------------------------
(* Properties of the playback context *)

NoteTypes == {"Note", "Chord", "Rest", "RestChord"}

EndingsOf(obj) == GetTaggedOpt(obj, "Endings", DictV(<<>>))

\* The Note branch got past GetNoteName for every pitch of obj.
PitchesRead(ctx, obj) ==
    GetObjType(obj) \in NoteTypes /\ (MergedNotes(obj) = <<>> \/ ClefKnown(ctx.Clef))

\* obj, processed in context ctx, holds a pitch with tie key k and no tie marker.
HasUntiedPitch(ctx, obj, k) ==
    /\ PitchesRead(ctx, obj)
    /\ \E i \in 1..Len(MergedNotes(obj)) :
          LET p == NWC2NotePitchPos(MergedNotes(obj)[i])
          IN TieKeyOf(ctx, p) = k /\ p.Tied = ""

\* C1: right after UpdateContext has processed a Bar or a Key object, RunKey
\* equals Key at each of the seven letters.
C1_RunKeyIsKeyAfterBarOrKey ==
    GetObjType(o) \in {"Bar", "Key"} =>
        /\ DOMAIN Context.RunKey = NoteLetters
        /\ \A n \in NoteLetters : Context.RunKey[n] = Context.Key[n]

\* A Bar was processed in a measure whose running key had left the key
\* signature, under a key signature with sharps.
C1_Witness ==
    /\ GetObjType(o) = "Bar"
    /\ pre.RunKey # pre.Key
    /\ Context.Key["F"] = 1
    /\ Context.RunKey = Context.Key

\* C2 as claimed: a tie key leaves Ties only when the object processed holds
\* an untied pitch with that key.
C2_RemovedOnlyByUntiedPitch ==
    \A i \in 1..Len(pre.Ties) :
        ~ListHas(Context.Ties, pre.Ties[i]) => HasUntiedPitch(pre, o, pre.Ties[i])

\* The Ending that restores the snapshot: no "1" among its endings while
\* SeenFirstEnding holds (the restore leaves SeenFirstEnding as it was).
IsRestore(obj, seen) ==
    GetObjType(obj) = "Ending" /\ seen /\ ~PyIn("1", EndingsOf(obj))

\* C2 amended: a tie key leaves Ties only when the object processed holds an
\* untied pitch with that key, or when the object is an Ending that restores
\* the first-ending snapshot, which then replaces Ties as a whole.
C2_RemovedOnlyByUntiedPitchOrRestore ==
    \A i \in 1..Len(pre.Ties) :
        ~ListHas(Context.Ties, pre.Ties[i]) =>
            \/ HasUntiedPitch(pre, o, pre.Ties[i])
            \/ IsRestore(o, SeenFirstEnding) /\ Context.Ties = Ending1Context.Ties

\* An Ending restored a snapshot taken before a tie was opened: the tie key
\* left Ties although the Ending holds no pitch.
C2_Witness ==
    /\ IsRestore(o, SeenFirstEnding)
    /\ Len(pre.Ties) = 1
    /\ ~ListHas(Context.Ties, pre.Ties[1])
    /\ ~HasUntiedPitch(pre, o, pre.Ties[1])

\* What the claim says one pitch does to the tie list.
TieStepAsClaimed(before, after, k, tied) ==
    IF ListHas(before, k) /\ ~tied
    THEN /\ after = SelectSeq(before, LAMBDA x : x # k)
         /\ Len(after) = Len(before) - 1
    ELSE IF ~ListHas(before, k) /\ tied
    THEN after = Append(before, k)
    ELSE after = before

\* Ties after the first i pitches of obj, processed in context ctx.
TiesAfter(ctx, obj, i) ==
    PitchLoop(ctx, [Ties |-> ctx.Ties, RunKey_Changes |-> <<>>],
              SubSeq(MergedNotes(obj), 1, i)).Ties

\* C3: each pitch of a Note, Chord, Rest or RestChord removes exactly its own
\* key when the key is in Ties and the pitch is untied, adds its key when the
\* pitch is tied and the key is absent, and otherwise leaves Ties alone.
C3_TieStepPerPitch ==
    PitchesRead(pre, o) =>
        /\ Context.Ties = TiesAfter(pre, o, Len(MergedNotes(o)))
        /\ \A i \in 1..Len(MergedNotes(o)) :
              LET p == NWC2NotePitchPos(MergedNotes(o)[i])
              IN TieStepAsClaimed(TiesAfter(pre, o, i - 1), TiesAfter(pre, o, i),
                                  TieKeyOf(pre, p), p.Tied # "")

\* A one-pitch Note resolved the first of two pending ties and left the other.
C3_Witness ==
    /\ GetObjType(o) = "Note"
    /\ Len(MergedNotes(o)) = 1
    /\ Len(pre.Ties) = 2
    /\ HasUntiedPitch(pre, o, pre.Ties[1])
    /\ Context.Ties = <<pre.Ties[2]>>

\* C4: an Ending without "1", processed after a snapshot was taken and with no
\* MasterRepeatOpen Bar since, leaves the context equal to the context as it
\* was when the snapshot was taken.
C4_ReplayEqualsContextAtFirstEnding ==
    (/\ GetObjType(o) = "Ending"
     /\ ~PyIn("1", EndingsOf(o))
     /\ snapAt # NoContext
     /\ ~openSince) => Context = snapAt

\* A second restore after the restored context had been changed again.
C4_Witness ==
    /\ GetObjType(o) = "Ending"
    /\ ~PyIn("1", EndingsOf(o))
    /\ snapAt # NoContext
    /\ ~openSince
    /\ pre # snapAt
    /\ pre.Ties # snapAt.Ties
    /\ Context = snapAt

\* C5: Ending1Context changes only at an Ending that contains "1", and then
\* only when it is the first snapshot or a MasterRepeatOpen Bar was processed
\* since the snapshot was taken.
C5_SnapshotKeptUntilRepeatOpen ==
    [][Ending1Context' # Ending1Context =>
          /\ GetObjType(o') = "Ending"
          /\ PyIn("1", EndingsOf(o'))
          /\ (Ending1Context = NoContext \/ openSince)]_vars

\* An Ending containing "1" was processed while a snapshot was in force, and
\* the snapshot still differs from the live context.
C5_Witness ==
    /\ GetObjType(o) = "Ending"
    /\ PyIn("1", EndingsOf(o))
    /\ SeenFirstEnding
    /\ ~openSince
    /\ Ending1Context = snapAt
    /\ Ending1Context # Context

\* C6 as claimed: whenever a snapshot exists, an Ending without "1" leaves
\* the context equal to the snapshot.
C6_RestoreWheneverSnapshotExists ==
    (/\ GetObjType(o) = "Ending"
     /\ ~PyIn("1", EndingsOf(o))
     /\ Ending1Context # NoContext) => Context = Ending1Context

\* C6 amended: an Ending without "1" leaves the context equal to the snapshot
\* when SeenFirstEnding holds, and leaves the context as it was otherwise,
\* also when a snapshot from before a MasterRepeatOpen Bar still exists.
C6_RestoreWhenSeenFirstEnding ==
    (GetObjType(o) = "Ending" /\ ~PyIn("1", EndingsOf(o))) =>
        IF SeenFirstEnding THEN Context = Ending1Context ELSE Context = pre

\* An Ending without "1" replaced a context that had moved on from the snapshot.
C6_Witness ==
    /\ IsRestore(o, SeenFirstEnding)
    /\ pre.RunKey # Context.RunKey
    /\ Context = Ending1Context

\* C7 as claimed: no UpdateContext call raises an exception.
C7_UpdateContextNeverFails == err = ""

----------------------------------------------------------------------------
(* Text escaper *)

\* The characters EscapeText's pattern ['"\r\n\t\|\\] matches.
EscapedChars == {"'", "\"", "\r", "\n", "\t", "|", "\\"}

\* EscapeText's replChar on the one matched character.
EscapeChar(newchar) ==
    <<"\\", IF newchar = "\r" THEN "r"
            ELSE IF newchar = "\n" THEN "n"
            ELSE IF newchar = "\t" THEN "t"
            ELSE newchar>>

RECURSIVE EscapeText(_)
EscapeText(s) ==
    IF s = <<>> THEN <<>>
    ELSE (IF Head(s) \in EscapedChars THEN EscapeChar(Head(s)) ELSE <<Head(s)>>)
         \o EscapeText(Tail(s))

\* UnescapeText's replChar. newchar is the whole match of \\. : the backslash
\* and the character after it, so the comparisons with the one-character
\* strings "r", "n" and "t" are made on a two-character string.
UnescapeChar(newchar) ==
    IF newchar = <<"r">> THEN "\r"
    ELSE IF newchar = <<"n">> THEN "\n"
    ELSE IF newchar = <<"t">> THEN "\t"
    ELSE newchar[2]

\* re.sub(r'\\.', replChar, s): matches are taken left to right and do not
\* overlap; the dot matches any character but a line feed.
RECURSIVE UnescapeText(_)
UnescapeText(s) ==
    IF s = <<>> THEN <<>>
    ELSE IF Head(s) = "\\" /\ Len(s) >= 2 /\ s[2] # "\n"
    THEN <<UnescapeChar(<<s[1], s[2]>>)>> \o UnescapeText(Tail(Tail(s)))
    ELSE <<Head(s)>> \o UnescapeText(Tail(s))

\* The characters of the strings under test: two letters and every character
\* that EscapeText escapes.
TextChars == {"a", "r"} \cup EscapedChars

\* All strings over chars of length at most n.
StringsUpTo(chars, n) == UNION {[1..k -> chars] : k \in 0..n}

DoEscape ==
    /\ phase = "text"
    /\ escaped' = EscapeText(text)
    /\ phase' = "escaped"
    /\ UNCHANGED <<pvars, cvars, text, unescaped>>

DoUnescape ==
    /\ phase = "escaped"
    /\ unescaped' = UnescapeText(escaped)
    /\ phase' = "unescaped"
    /\ UNCHANGED <<pvars, cvars, text, escaped>>

InitEscaper ==
    /\ InitPlay
    /\ InitCodec
    /\ text \in StringsUpTo(TextChars, MaxTextLen)
    /\ escaped = <<>>
    /\ unescaped = <<>>
    /\ phase = "text"

NextEscaper == DoEscape \/ DoUnescape

SpecEscaper == InitEscaper /\ [][NextEscaper]_vars

\* C8 as claimed: UnescapeText(EscapeText(s)) = s for every string s.
C8_UnescapeInvertsEscape == phase = "unescaped" => unescaped = text

----------------------------------------------------------------------------
(* Option classifier *)

NWC2OPT_RAW == 0
NWC2OPT_TEXT == 1
NWC2OPT_LIST == 2
NWC2OPT_ASSOCIATIVE == 3

NWC2ClassifyOptTag(ObjType, Tag) ==
    IF Tag \in {<<"Opts">>, <<"Dur">>, <<"Dur2">>, <<"Endings">>} THEN NWC2OPT_ASSOCIATIVE
    ELSE IF Tag = <<"Signature">> /\ ObjType = <<"Key">> THEN NWC2OPT_ASSOCIATIVE
    ELSE IF Tag \in {<<"Text">>, <<"Name">>} THEN NWC2OPT_TEXT
    ELSE IF Tag = <<"DynVel">> THEN NWC2OPT_LIST
    ELSE IF ObjType \in {<<"Chord">>, <<"RestChord">>} /\ Tag \in {<<"Pos">>, <<"Pos2">>}
    THEN NWC2OPT_LIST
    ELSE NWC2OPT_RAW

----------------------------------------------------------------------------
(* Clip item codec *)

\* The characters str.strip() and \s take for white space.
WhiteSpace == {" ", "\t", "\n", "\r"}

\* The symbols of the class [0-9A-Za-z\-_].
TagChars ==
    {"Note", "Chord", "RestChord", "Key", "Text", "Name", "Dur", "Dur2", "Pos", "Pos2",
     "Opts", "Endings", "Signature", "DynVel", "a", "r", "n", "t", "-", "_"} \cup Digits

RECURSIVE LStrip(_)
LStrip(s) == IF s # <<>> /\ Head(s) \in WhiteSpace THEN LStrip(Tail(s)) ELSE s

RECURSIVE RStrip(_)
RStrip(s) ==
    IF s # <<>> /\ s[Len(s)] \in WhiteSpace THEN RStrip(SubSeq(s, 1, Len(s) - 1)) ELSE s

Strip(s) == LStrip(RStrip(s))

\* Index of the first character at or after i that is no white space.
RECURSIVE SkipSpace(_, _)
SkipSpace(s, i) == IF i <= Len(s) /\ s[i] \in WhiteSpace THEN SkipSpace(s, i + 1) ELSE i

\* re.split on the delimiter d where no backslash stands right before it
\* ((?<!\\)d), from index i on with cur the field read so far; with skip the
\* pattern also takes the white space after the delimiter (\s*).
RECURSIVE SplitFrom(_, _, _, _, _)
SplitFrom(s, i, cur, d, skip) ==
    IF i > Len(s) THEN <<cur>>
    ELSE IF s[i] = d /\ (i = 1 \/ s[i - 1] # "\\")
    THEN <<cur>> \o SplitFrom(s, IF skip THEN SkipSpace(s, i + 1) ELSE i + 1, <<>>, d, skip)
    ELSE SplitFrom(s, i + 1, Append(cur, s[i]), d, skip)

SplitFields(s) == SplitFrom(s, 1, <<>>, "|", FALSE)

SplitList(s) == SplitFrom(s, 1, <<>>, ",", TRUE)

\* Index just past the longest run of tag characters of s that starts at i.
RECURSIVE TagEnd(_, _)
TagEnd(s, i) == IF i <= Len(s) /\ s[i] \in TagChars THEN TagEnd(s, i + 1) ELSE i

\* What (.*) takes: the characters before the first line feed.
RECURSIVE UpToLineFeed(_)
UpToLineFeed(s) ==
    IF s = <<>> \/ Head(s) = "\n" THEN <<>> ELSE <<Head(s)>> \o UpToLineFeed(Tail(s))

\* ^\"(.*)\"$ : a value wrapped in double quotes loses them.
Unquote(optdata) ==
    IF Len(optdata) >= 2 /\ optdata[1] = "\"" /\ optdata[Len(optdata)] = "\""
    THEN SubSeq(optdata, 2, Len(optdata) - 1)
    ELSE optdata

\* Index of the last "=" of ldv that has a character before it, 0 for none:
\* where ^(.+)\=(.*)$ splits.
LastEq(ldv) ==
    LET eqs == {i \in 2..Len(ldv) : ldv[i] = "="}
    IN IF eqs = {} THEN 0 ELSE CHOOSE i \in eqs : \A j \in eqs : j <= i

\* The dict built from the elements of an associative option, later
\* elements overwriting earlier ones with the same key.
RECURSIVE AssocOf(_, _)
AssocOf(ldata, optdata) ==
    IF ldata = <<>> THEN optdata
    ELSE LET ldv == Head(ldata)
             e == LastEq(ldv)
             entry == IF e > 0
                      THEN SubSeq(ldv, 1, e - 1) :> SubSeq(ldv, e + 1, Len(ldv))
                      ELSE ldv :> <<>>
         IN AssocOf(Tail(ldata), entry @@ optdata)

\* The body of the loop over the fields of a line: Opts after field v.
ParseOption(ObjType, Opts, v) ==
    LET e == TagEnd(v, 1)
    IN IF ~(e > 1 /\ e <= Len(v) /\ v[e] = ":")
       THEN (v :> StrV(<<>>)) @@ Opts
       ELSE LET tag == SubSeq(v, 1, e - 1)
                optdata == Strip(UpToLineFeed(SubSeq(v, e + 1, Len(v))))
                tagtype == NWC2ClassifyOptTag(ObjType, tag)
                value == IF tagtype = NWC2OPT_TEXT THEN StrV(UnescapeText(Unquote(optdata)))
                         ELSE IF tagtype = NWC2OPT_LIST THEN ListV(SplitList(optdata))
                         ELSE IF tagtype = NWC2OPT_ASSOCIATIVE
                         THEN DictV(AssocOf(SplitList(optdata), <<>>))
                         ELSE StrV(optdata)
            IN (tag :> value) @@ Opts

RECURSIVE ParseOptions(_, _, _)
ParseOptions(ObjType, Opts, fields) ==
    IF fields = <<>> THEN Opts
    ELSE ParseOptions(ObjType, ParseOption(ObjType, Opts, Head(fields)), Tail(fields))

\* NWC2ClipItem.__init__ on a line with at least an object type field.
NWC2ClipItem(itemtext) ==
    LET f == SplitFields(RStrip(itemtext))
    IN Obj(f[2], ParseOptions(f[2], <<>>, SubSeq(f, 3, Len(f))))

\* The orders in which the keys of a dict can come out of iteritems().
Orders(S) ==
    {p \in [1..Cardinality(S) -> S] : \A i, j \in 1..Cardinality(S) : i # j => p[i] # p[j]}

\* Every tag of it and every key of its dict options: an order of these fixes
\* the iteration order of Opts and of each dict option.
KeysOf(it) ==
    DOMAIN it.Opts
    \cup UNION {DOMAIN it.Opts[k].dict : k \in {t \in DOMAIN it.Opts : IsDict(it.Opts[t])}}

\* The keys of S in the order rank gives them.
InOrder(S, rank) == SelectSeq(rank, LAMBDA x : x \in S)

RECURSIVE JoinList(_)
JoinList(l) ==
    IF l = <<>> THEN <<>>
    ELSE IF Len(l) = 1 THEN l[1]
    ELSE l[1] \o <<",">> \o JoinList(Tail(l))

\* The text of a dict option: key or key=value, joined by commas.
DictText(d, rank) ==
    LET ks == InOrder(DOMAIN d, rank)
    IN JoinList([i \in 1..Len(ks) |->
                   ks[i] \o (IF d[ks[i]] # <<>> THEN <<"=">> \o d[ks[i]] ELSE <<>>)])

\* A ReconstructClipText that checks the classification of lists only and
\* writes a dict out under any tag.
SchemaViolation_ListOnly(c, v) == IsList(v) /\ c # NWC2OPT_LIST

\* ReconstructClipText stops in trigger_error at this option.
SchemaViolation(c, v) ==
    \/ IsList(v) /\ c # NWC2OPT_LIST
    \/ IsDict(v) /\ c # NWC2OPT_ASSOCIATIVE

\* The text ReconstructClipText appends for option k.
OptionText(it, k, rank) ==
    LET v == it.Opts[k]
        c == NWC2ClassifyOptTag(it.ObjType, k)
    IN IF v = StrV(<<>>) THEN <<"|">> \o k
       ELSE <<"|">> \o k \o <<":">> \o
            (IF IsStr(v)
             THEN (IF c = NWC2OPT_TEXT
                   THEN <<"\"">> \o EscapeText(v.str) \o <<"\"">>
                   ELSE EscapeText(v.str))
             ELSE IF IsList(v) THEN JoinList(v.list)
             ELSE DictText(v.dict, rank))

RECURSIVE OptionsText(_, _, _)
OptionsText(it, ks, rank) ==
    IF ks = <<>> THEN <<>>
    ELSE OptionText(it, Head(ks), rank) \o OptionsText(it, Tail(ks), rank)

\* ReconstructClipText with the dicts iterated in the order rank: the text
\* returned, or err when trigger_error ends the process and nothing is returned.
ReconstructClipText(it, rank) ==
    IF \E k \in DOMAIN it.Opts :
          it.Opts[k] # StrV(<<>>)
          /\ SchemaViolation(NWC2ClassifyOptTag(it.ObjType, k), it.Opts[k])
    THEN [text |-> <<>>, err |-> TRUE]
    ELSE [text |-> <<"|">> \o it.ObjType \o OptionsText(it, InOrder(DOMAIN it.Opts, rank), rank),
          err |-> FALSE]

----------------------------------------------------------------------------
(* The codec drivers: parse a raw line, rebuild it, parse the result; and   *)
(* parse a raw line, let the caller change an option, rebuild it.          *)

\* The characters of an option value in a raw line.
ValueChars == {"a", "\"", "\\", ",", "=", "|"}

\* Every backslash of s is followed by the character it escapes.
RECURSIVE EscapesComplete(_)
EscapesComplete(s) ==
    IF s = <<>> THEN TRUE
    ELSE IF Head(s) = "\\" THEN Len(s) >= 2 /\ EscapesComplete(Tail(Tail(s)))
    ELSE EscapesComplete(Tail(s))

\* The indices at or after i of the characters of s that are neither a
\* backslash nor escaped by one.
RECURSIVE PlainAt(_, _)
PlainAt(s, i) ==
    IF i > Len(s) THEN {}
    ELSE IF s[i] = "\\" THEN PlainAt(s, i + 2)
    ELSE {i} \cup PlainAt(s, i + 1)

\* An option value as NoteWorthy Composer writes one: escapes are complete,
\* field delimiters are escaped, and double quotes are escaped or are the
\* one pair that wraps the whole value.
ValueWellFormed(v) ==
    /\ EscapesComplete(v)
    /\ \A i \in PlainAt(v, 1) : v[i] # "|"
    /\ {i \in PlainAt(v, 1) : v[i] = "\""} \in {{}, {1, Len(v)} \ {0}}
    /\ (v # <<>> /\ v[1] = "\"" => Len(v) >= 2)

ValuesUpTo(n) == {v \in StringsUpTo(ValueChars, n) : ValueWellFormed(v)}

\* Raw lines |ObjType|Tag, |ObjType|Tag:value and the latter followed by a
\* Dur option with two elements. Across the two object types the three tags
\* are classified Text, Associative, Raw and List.
RawLines(n) ==
    LET types == {<<"Note">>, <<"Chord">>}
        tags == {<<"Text">>, <<"Opts">>, <<"Pos">>}
        head == {<<"|">> \o ty \o <<"|">> \o tg : ty \in types, tg \in tags}
        valued == {h \o <<":">> \o v : h \in head, v \in ValuesUpTo(n)}
    IN head \cup valued
       \cup {l \o <<"|", "Dur", ":", "a", ",", "r", "=", "a">> : l \in valued}

\* The values a caller stores into an option of a parsed item.
EditValues ==
    {StrV(<<"a">>), ListV(<<>>), ListV(<<<<"a">>, <<"r">>>>), DictV(<<"a">> :> <<>>)}

Parse ==
    /\ phase = "line"
    /\ item' = NWC2ClipItem(line)
    /\ phase' = "parsed"
    /\ UNCHANGED <<pvars, tvars, line, rebuilt, cerr, reparsed>>

\* The caller assigns item.Opts[tag] = v.
SetOpt(tag, v) ==
    /\ phase = "parsed"
    /\ item' = [item EXCEPT !.Opts = (tag :> v) @@ item.Opts]
    /\ phase' = "edited"
    /\ UNCHANGED <<pvars, tvars, line, rebuilt, cerr, reparsed>>

Reconstruct ==
    /\ phase \in {"parsed", "edited"}
    /\ \E rank \in Orders(KeysOf(item)) :
          LET r == ReconstructClipText(item, rank)
          IN rebuilt' = r.text /\ cerr' = r.err
    /\ phase' = "rebuilt"
    /\ UNCHANGED <<pvars, tvars, line, item, reparsed>>

Reparse ==
    /\ phase = "rebuilt"
    /\ ~cerr
    /\ reparsed' = NWC2ClipItem(rebuilt)
    /\ phase' = "reparsed"
    /\ UNCHANGED <<pvars, tvars, line, item, rebuilt, cerr>>

InitCodecLine(n) ==
    /\ InitPlay
    /\ InitText
    /\ line \in RawLines(n)
    /\ item = Obj(<<>>, <<>>)
    /\ rebuilt = <<>>
    /\ cerr = FALSE
    /\ reparsed = Obj(<<>>, <<>>)
    /\ phase = "line"

InitRoundTrip == InitCodecLine(MaxValueLen)

NextRoundTrip == Parse \/ Reconstruct \/ Reparse

SpecRoundTrip == InitRoundTrip /\ [][NextRoundTrip]_vars

InitEdit == InitCodecLine(MaxEditLen)

NextEdit ==
    \/ Parse
    \/ \E tag \in {<<"Text">>, <<"Opts">>, <<"Pos">>}, v \in EditValues : SetOpt(tag, v)
    \/ Reconstruct

SpecEdit == InitEdit /\ [][NextEdit]_vars

----------------------------------------------------------------------------
(* Properties of the codec *)

\* C9 as claimed: the item parsed from ReconstructClipText(Parse(line)) has
\* the ObjType and the tag to value mapping of Parse(line).
C9_ReparseGivesSameItem ==
    phase = "reparsed" =>
        /\ reparsed.ObjType = item.ObjType
        /\ DOMAIN reparsed.Opts = DOMAIN item.Opts
        /\ \A k \in DOMAIN item.Opts : reparsed.Opts[k] = item.Opts[k]

\* The option of it stored under k holds a variant other than the one k is
\* classified as, in one of the three ways the claim names.
VariantDiffers(it, k) ==
    LET v == it.Opts[k]
        c == NWC2ClassifyOptTag(it.ObjType, k)
    IN /\ v # StrV(<<>>)
       /\ \/ IsList(v) /\ c # NWC2OPT_LIST
          \/ IsDict(v) /\ c # NWC2OPT_ASSOCIATIVE
          \/ IsStr(v) /\ c \in {NWC2OPT_LIST, NWC2OPT_ASSOCIATIVE}

\* C10 as claimed: ReconstructClipText fails and returns no text whenever an
\* option's variant differs from its classification, a plain string under a
\* List or Associative tag included.
C10_FailsOnEveryVariantMismatch ==
    (phase = "rebuilt" /\ \E k \in DOMAIN item.Opts : VariantDiffers(item, k)) =>
        cerr /\ rebuilt = <<>>

\* C10 amended: ReconstructClipText fails, returning no text, exactly when
\* some non-empty option is a list under a tag not classified List or a dict
\* under a tag not classified Associative; a plain string is accepted under
\* every tag and is written out escaped, in quotes only under a Text tag.
C10_FailsOnListOrDictMismatch ==
    phase = "rebuilt" =>
        /\ cerr <=> \E k \in DOMAIN item.Opts :
                      LET v == item.Opts[k]
                          c == NWC2ClassifyOptTag(item.ObjType, k)
                      IN \/ IsList(v) /\ c # NWC2OPT_LIST
                         \/ IsDict(v) /\ c # NWC2OPT_ASSOCIATIVE
        /\ cerr => rebuilt = <<>>
        /\ \A k \in DOMAIN item.Opts :
              (~cerr /\ DOMAIN item.Opts = {k} /\ IsStr(item.Opts[k])
               /\ item.Opts[k] # StrV(<<>>)
               /\ NWC2ClassifyOptTag(item.ObjType, k) # NWC2OPT_TEXT) =>
                  rebuilt = <<"|">> \o item.ObjType \o <<"|">> \o k \o <<":">>
                            \o EscapeText(item.Opts[k].str)

\* A caller stored a dict under Pos, which is never Associative, and
\* ReconstructClipText ended in trigger_error.
C10_Witness ==
    /\ phase = "rebuilt"
    /\ <<"Pos">> \in DOMAIN item.Opts
    /\ IsDict(item.Opts[<<"Pos">>])
    /\ cerr
    /\ rebuilt = <<>>

----------------------------------------------------------------------------
(* Properties of the playback context within a measure *)

\* The pitch object of a token given as text.
Pitch(postxt) == NWC2NotePitchPos(postxt)

\* The first clip item was a Key with Signature {F#} and the second a Bar:
\* only a Key writes Context.Key, and after two items the Bar came last.
AfterKeyFSharpThenBar ==
    /\ nitems = 2
    /\ GetObjType(o) = "Bar"
    /\ Context.Clef = "Treble"
    /\ Context.Key = [n \in NoteLetters |-> IF n = "F" THEN 1 ELSE 0]

\* C11 as claimed: after Key {F#} and a Bar on the Treble clef,
\* GetNotePitchAccidental of the token "3" is "#".
C11_Position3InheritsFSharp ==
    AfterKeyFSharpThenBar => GetNotePitchAccidental(Context, Pitch(<<"3">>)) = "#"

\* C11 amended: after Key {F#} and a Bar on the Treble clef, position 3 is
\* the letter E and the token "3" has the accidental "n"; the tokens of the
\* letter F, "4" and "-3", have the accidental "#" inherited from the key
\* signature, and an explicit accidental is returned as written.
C11_Position4InheritsFSharp ==
    AfterKeyFSharpThenBar =>
        /\ GetNoteName(Pitch(<<"3">>), Context.Clef) = "E"
        /\ GetNotePitchAccidental(Context, Pitch(<<"3">>)) = "n"
        /\ GetNoteName(Pitch(<<"4">>), Context.Clef) = "F"
        /\ GetNotePitchAccidental(Context, Pitch(<<"4">>)) = "#"
        /\ GetNoteName(Pitch(<<"-", "3">>), Context.Clef) = "F"
        /\ GetNotePitchAccidental(Context, Pitch(<<"-", "3">>)) = "#"
        /\ GetNotePitchAccidental(Context, Pitch(<<"b", "3">>)) = "b"

\* Key {F#} and then a Bar were processed by a new context, and the query
\* for the token "4" answers with the sharp of the key signature.
C11_Witness ==
    /\ AfterKeyFSharpThenBar
    /\ pre.RunKey["F"] = 1
    /\ Pitch(<<"4">>).Accidental = ""
    /\ GetNotePitchAccidental(Context, Pitch(<<"4">>)) = "#"


\* The letter of the i-th pitch of notes on the clef of ctx.
LetterAt(ctx, notes, i) == GetNoteName(Pitch(notes[i]), ctx.Clef)

\* The indices below j of the pitches of notes that have the letter L and an
\* explicit accidental.
ExplicitBefore(ctx, notes, L, j) ==
    {i \in 1..(j - 1) : Pitch(notes[i]).Accidental # "" /\ LetterAt(ctx, notes, i) = L}

Max(S) == CHOOSE x \in S : \A y \in S : y <= x

\* The last pitch of obj is tied and has no accidental of its own, and an
\* earlier pitch of obj has the same letter and an explicit accidental.
LastPitchFollowsExplicit(ctx, obj) ==
    LET notes == MergedNotes(obj)
        j == Len(notes)
    IN /\ PitchesRead(ctx, obj)
       /\ j >= 2
       /\ Pitch(notes[j]).Accidental = ""
       /\ Pitch(notes[j]).Tied # ""
       /\ ExplicitBefore(ctx, notes, LetterAt(ctx, notes, j), j) # {}

\* The explicit accidental of the last pitch before the last one of obj that
\* has the last one's letter.
EarlierAccidental(ctx, obj) ==
    LET notes == MergedNotes(obj)
        j == Len(notes)
    IN Pitch(notes[Max(ExplicitBefore(ctx, notes, LetterAt(ctx, notes, j), j))]).Accidental

\* The running key after obj: at each letter the offset of the last explicit
\* accidental of obj on that letter, else the offset before obj.
RunKeyAfter(ctx, obj) ==
    LET notes == MergedNotes(obj)
    IN [L \in NoteLetters |->
          LET E == ExplicitBefore(ctx, notes, L, Len(notes) + 1)
          IN IF E = {} THEN ctx.RunKey[L]
             ELSE GetAccidentalPitchOffset(Pitch(notes[Max(E)]))]

\* C12 as claimed: a tied pitch without an accidental that ends an object is
\* entered in Ties under the explicit accidental of the earlier pitch of the
\* same letter in that object.
C12_LaterPitchTakesEarlierAccidental ==
    LastPitchFollowsExplicit(pre, o) =>
        LET last == Pitch(MergedNotes(o)[Len(MergedNotes(o))])
        IN ListHas(Context.Ties, <<EarlierAccidental(pre, o)>> \o IntToStr(last.Position))

\* C12 amended: the explicit accidentals of an object are collected while its
\* pitches are processed and written to RunKey after the last pitch; a later
\* pitch of the same letter in the same object that has no explicit
\* accidental takes its effective accidental from RunKey as it was before
\* the object when its tie key is computed.
C12_LaterPitchTakesRunKeyBeforeObject ==
    /\ LastPitchFollowsExplicit(pre, o) =>
          LET last == Pitch(MergedNotes(o)[Len(MergedNotes(o))])
              L == GetNoteName(last, pre.Clef)
          IN ListHas(Context.Ties, <<nwcAccidentals[pre.RunKey[L] + 2 + 1]>>
                                   \o IntToStr(last.Position))
    /\ PitchesRead(pre, o) => Context.RunKey = RunKeyAfter(pre, o)

\* A Chord with a sharpened F and a tied F an octave lower was processed in
\* a measure where F was natural: the tie is held as n-3 and RunKey has the
\* sharp.
C12_Witness ==
    /\ GetObjType(o) = "Chord"
    /\ LastPitchFollowsExplicit(pre, o)
    /\ EarlierAccidental(pre, o) = "#"
    /\ pre.RunKey["F"] = 0
    /\ ListHas(Context.Ties, <<"n", "-", "3">>)
    /\ ~ListHas(Context.Ties, <<"#", "-", "3">>)
    /\ Context.RunKey["F"] = 1

\* Pitch tokens without an accidental, one for each position of two octaves.
ProbeTokens == {IntToStr(pos) : pos \in (0 - 7)..7}

\* The answer of GetNotePitchAccidental for every token without an
\* accidental whose letter on the clef of ctx is L.
EffectiveAccidentals(ctx, L) ==
    {GetNotePitchAccidental(ctx, Pitch(t)) :
        t \in {u \in ProbeTokens : GetNoteName(Pitch(u), ctx.Clef) = L}}

\* Right after a Note, Chord, Rest or RestChord: at a letter the object holds
\* an explicit accidental on, every pitch of that letter without one has the
\* last such accidental, in any octave; the other letters are as before.
AccidentalHeldAfterNote ==
    (PitchesRead(pre, o) /\ ClefKnown(Context.Clef)) =>
        \A L \in NoteLetters :
            LET notes == MergedNotes(o)
                E == ExplicitBefore(pre, notes, L, Len(notes) + 1)
            IN IF E = {} THEN Context.RunKey[L] = pre.RunKey[L]
               ELSE EffectiveAccidentals(Context, L) = {Pitch(notes[Max(E)]).Accidental}

\* Right after a Bar or a Key every pitch without an accidental has the
\* accidental of the key signature at its letter.
AccidentalFromKeyAfterBarOrKey ==
    (GetObjType(o) \in {"Bar", "Key"} /\ ClefKnown(Context.Clef)) =>
        \A L \in NoteLetters :
            EffectiveAccidentals(Context, L) = {nwcAccidentals[Context.Key[L] + 2 + 1]}

\* The running key of a letter changes only at a Bar, a Key, an Ending that
\* restores the snapshot, or a Note, Chord, Rest or RestChord that holds an
\* explicit accidental on that letter.
RunKeyHeldUntilBarOrKey ==
    \A L \in NoteLetters :
        Context'.RunKey[L] # Context.RunKey[L] =>
            \/ GetObjType(o') \in {"Bar", "Key"}
            \/ IsRestore(o', SeenFirstEnding)
            \/ /\ PitchesRead(Context, o')
               /\ ExplicitBefore(Context, MergedNotes(o'), L, Len(MergedNotes(o')) + 1) # {}

\* C13: an explicit accidental on a letter (an explicit natural included) is
\* the effective accidental of every later pitch of that letter without one,
\* in any octave, from the object that holds it until the next Bar, Key or
\* Ending restore, the last explicit accidental on the letter counting; after
\* a Bar or Key the effective accidental is the key signature's; a Note
\* leaves the running key of the other letters alone.
C13_AccidentalHeldWithinMeasure ==
    /\ [](AccidentalHeldAfterNote /\ AccidentalFromKeyAfterBarOrKey)
    /\ [][RunKeyHeldUntilBarOrKey]_vars

\* Under a key signature with F sharp an explicit natural on F was processed;
\* the next object was no Bar, Key or Ending, and an F in either octave
\* still has the natural.
C13_Witness ==
    /\ Context.Key["F"] = 1
    /\ Context.Clef = "Treble"
    /\ pre.RunKey["F"] = 0
    /\ pre.Key["F"] = 1
    /\ GetObjType(o) \in {"Instrument", "Rest"}
    /\ GetNotePitchAccidental(Context, Pitch(<<"4">>)) = "n"
    /\ GetNotePitchAccidental(Context, Pitch(<<"-", "3">>)) = "n"

\* The Dur option of obj holds the flag f.
DurHas(obj, f) == IsDict(obj.Opts["Dur"]) /\ f \in DOMAIN obj.Opts["Dur"].dict

\* C14: after a Note, Chord, Rest or RestChord whose Dur does not contain
\* Grace, Slur is true exactly when Dur contains Slur; after one whose Dur
\* contains Grace, Slur is what it was before the object.
C14_SlurFollowsDurUnlessGrace ==
    (GetObjType(o) \in NoteTypes /\ err = "" /\ "Dur" \in DOMAIN o.Opts) =>
        IF DurHas(o, "Grace") THEN Context.Slur = pre.Slur
        ELSE Context.Slur = DurHas(o, "Slur")

\* A grace note without a slur of its own was processed under a slur, and
\* the slur is still on.
C14_Witness ==
    /\ GetObjType(o) = "Note"
    /\ err = ""
    /\ DurHas(o, "Grace")
    /\ ~DurHas(o, "Slur")
    /\ pre.Slur
    /\ Context.Slur

ContextFields == {"Clef", "ClefOctave", "Transposition", "Key", "RunKey", "Ties", "Slur"}

\* The step changes no field of Context outside fields.
ChangesOnly(fields) == \A f \in ContextFields \ fields : Context'[f] = Context[f]

\* The step leaves SeenFirstEnding and the snapshot as they were.
SnapshotUntouched ==
    SeenFirstEnding' = SeenFirstEnding /\ Ending1Context' = Ending1Context

\* What one UpdateContext call may change, by the type of the object.
FrameOfStep ==
    LET type == GetObjType(o')
    IN /\ DOMAIN Context' = ContextFields
       /\ type \in NoteTypes =>
             ChangesOnly({"RunKey", "Ties", "Slur"}) /\ SnapshotUntouched
       /\ type = "Bar" =>
             ChangesOnly({"RunKey"}) /\ Ending1Context' = Ending1Context
       /\ type = "Clef" => ChangesOnly({"Clef", "ClefOctave"}) /\ SnapshotUntouched
       /\ type = "Key" => ChangesOnly({"Key", "RunKey"}) /\ SnapshotUntouched
       /\ type = "Instrument" => ChangesOnly({"Transposition"}) /\ SnapshotUntouched
       /\ type \notin NoteTypes \cup {"Bar", "Clef", "Key", "Instrument", "Ending"} =>
             ChangesOnly({}) /\ SnapshotUntouched

\* C15: an object of no handled type changes nothing; a Clef changes only
\* Clef and ClefOctave; an Instrument only Transposition; a Bar only RunKey
\* and SeenFirstEnding; a Key only Key and RunKey; a Note, Chord, Rest or
\* RestChord only RunKey, Ties and Slur.
C15_FrameConditions == [][FrameOfStep]_vars

\* A Clef was processed in a context with a transposition and a pending tie:
\* the clef changed, the transposition and the tie stayed.
C15_Witness ==
    /\ GetObjType(o) = "Clef"
    /\ pre.Clef = "Treble"
    /\ Context.Clef = "Bass"
    /\ pre.Transposition = 0 - 2
    /\ Context.Transposition = 0 - 2
    /\ pre.Ties # <<>>
    /\ Context.Ties = pre.Ties

\* obj holds one pitch in Pos and one in Pos2 that have the same tie key in
\* ctx, one of them tied and the other not.
TiedAndUntiedSameKey(ctx, obj) ==
    /\ GetObjType(obj) \in NoteTypes
    /\ ClefKnown(ctx.Clef)
    /\ {"Pos", "Pos2"} \subseteq DOMAIN obj.Opts
    /\ Len(GetTaggedOptAsArray(obj, "Pos", <<>>)) = 1
    /\ Len(GetTaggedOptAsArray(obj, "Pos2", <<>>)) = 1
    /\ LET p1 == Pitch(GetTaggedOptAsArray(obj, "Pos", <<>>)[1])
           p2 == Pitch(GetTaggedOptAsArray(obj, "Pos2", <<>>)[1])
       IN /\ TieKeyOf(ctx, p1) = TieKeyOf(ctx, p2)
          /\ (p1.Tied # "") # (p2.Tied # "")

\* The Stem option of obj equals "Up".
StemUp(obj) == "Stem" \in DOMAIN obj.Opts /\ obj.Opts["Stem"] = StrV("Up")

\* C16: with the stem up the Pos2 pitches are processed before the Pos
\* pitches, otherwise the Pos pitches first; when one tie key is tied in one
\* list and untied in the other, the key is in Ties afterwards exactly when
\* the list processed last holds the tied pitch.
C16_StemDecidesPitchOrder ==
    /\ (GetObjType(o) \in NoteTypes /\ {"Pos", "Pos2"} \subseteq DOMAIN o.Opts) =>
          MergedNotes(o) =
             IF StemUp(o)
             THEN GetTaggedOptAsArray(o, "Pos2", <<>>) \o GetTaggedOptAsArray(o, "Pos", <<>>)
             ELSE GetTaggedOptAsArray(o, "Pos", <<>>) \o GetTaggedOptAsArray(o, "Pos2", <<>>)
    /\ TiedAndUntiedSameKey(pre, o) =>
          LET p1 == Pitch(GetTaggedOptAsArray(o, "Pos", <<>>)[1])
              p2 == Pitch(GetTaggedOptAsArray(o, "Pos2", <<>>)[1])
              last == IF StemUp(o) THEN p1 ELSE p2
          IN ListHas(Context.Ties, TieKeyOf(pre, p1)) <=> (last.Tied # "")

\* A stem-up Chord with a tied pitch in Pos and the same pitch untied in
\* Pos2 was processed while the tie was pending: the tie is still pending.
C16_Witness ==
    /\ TiedAndUntiedSameKey(pre, o)
    /\ StemUp(o)
    /\ Pitch(GetTaggedOptAsArray(o, "Pos", <<>>)[1]).Tied # ""
    /\ ListHas(pre.Ties, TieKeyOf(pre, Pitch(GetTaggedOptAsArray(o, "Pos", <<>>)[1])))
    /\ ListHas(Context.Ties, TieKeyOf(pre, Pitch(GetTaggedOptAsArray(o, "Pos", <<>>)[1])))

\* The names held by a Signature option: the keys of the dict the codec
\* makes of it, none for a bare or a missing option.
SignatureNames(obj) ==
    IF "Signature" \in DOMAIN obj.Opts /\ IsDict(obj.Opts["Signature"])
    THEN DOMAIN obj.Opts["Signature"].dict
    ELSE {}

\* C17: after a Key object Key[L] is +1 when L# is in the Signature option
\* (and Lb is not), -1 when Lb is in it, 0 when neither is, for every letter
\* L, whatever Key and RunKey were before; no Signature option gives zeros.
C17_KeyReplacesSignature ==
    GetObjType(o) = "Key" =>
        /\ DOMAIN Context.Key = NoteLetters
        /\ \A L \in NoteLetters :
              LET sharp == (L \o "#") \in SignatureNames(o)
                  flat == (L \o "b") \in SignatureNames(o)
              IN /\ (sharp /\ ~flat) => Context.Key[L] = 1
                 /\ flat => Context.Key[L] = 0 - 1
                 /\ (~sharp /\ ~flat) => Context.Key[L] = 0

\* A Key with Signature {Bb} was processed under a key signature with F
\* sharp and a running key that had left it: F is natural again, B is flat.
C17_Witness ==
    /\ GetObjType(o) = "Key"
    /\ SignatureNames(o) = {"Bb"}
    /\ pre.Key["F"] = 1
    /\ pre.RunKey # pre.Key
    /\ Context.Key["F"] = 0
    /\ Context.Key["B"] = 0 - 1

\* C18 as claimed: Key and RunKey each map the seven letters to an offset in
\* {-1, 0, 1}.
C18_OffsetsWithinOne ==
    /\ Context.Key \in [NoteLetters -> (0 - 1)..1]
    /\ Context.RunKey \in [NoteLetters -> (0 - 1)..1]

\* C18 amended: Key maps the seven letters to an offset in {-1, 0, 1};
\* RunKey maps them to an offset in {-2, ..., 2}, a double flat being -2 and
\* a double sharp 2, so that every entry of RunKey names an accidental.
C18_RunKeyOffsetsWithinTwo ==
    /\ Context.Key \in [NoteLetters -> (0 - 1)..1]
    /\ Context.RunKey \in [NoteLetters -> (0 - 2)..2]
    /\ \A L \in NoteLetters : Context.RunKey[L] + 2 + 1 \in DOMAIN nwcAccidentals

\* A Note with a double flat was processed in a measure that had a double
\* sharp on the same letter.
C18_Witness ==
    /\ GetObjType(o) = "Note"
    /\ Pitch(o.Opts["Pos"].str).Accidental = "v"
    /\ pre.RunKey["F"] = 2
    /\ Context.RunKey["F"] = 0 - 2
    /\ Context.Key["F"] \in (0 - 1)..1

\* No element of the list l occurs in it twice.
NoDuplicates(l) == \A i, j \in 1..Len(l) : i # j => l[i] # l[j]

\* C19: the Ties list never holds the same tie key twice, in the live
\* context and in the snapshot.
C19_TiesHoldNoKeyTwice ==
    /\ NoDuplicates(Context.Ties)
    /\ Ending1Context # NoContext => NoDuplicates(Ending1Context.Ties)

\* A Chord that repeats one tied pitch was processed while that tie was not
\* pending: the key was entered once.
C19_Witness ==
    /\ GetObjType(o) = "Chord"
    /\ Len(MergedNotes(o)) = 2
    /\ MergedNotes(o)[1] = MergedNotes(o)[2]
    /\ Pitch(MergedNotes(o)[1]).Tied # ""
    /\ ~ListHas(pre.Ties, TieKeyOf(pre, Pitch(MergedNotes(o)[1])))
    /\ Len(Context.Ties) = Len(pre.Ties) + 1
    /\ ListHas(Context.Ties, TieKeyOf(pre, Pitch(MergedNotes(o)[1])))

\* C20: while SeenFirstEnding holds, Ending1Context is a context with all
\* seven fields and not the placeholder False; the live context has all
\* seven fields in every state, after an Ending restore too.
C20_SeenFirstEndingHasSnapshot ==
    /\ SeenFirstEnding =>
          Ending1Context # NoContext /\ DOMAIN Ending1Context = ContextFields
    /\ DOMAIN Context = ContextFields

\* An Ending restored the snapshot over a context whose ties had changed
\* since, and the live context is a full context.
C20_Witness ==
    /\ IsRestore(o, SeenFirstEnding)
    /\ Ending1Context # NoContext
    /\ pre.Ties # Ending1Context.Ties
    /\ Context.Ties = Ending1Context.Ties
    /\ DOMAIN Context = ContextFields
============================================================================
